---- MODULE Spec2Model ----
(***************************************************************************)
(* AVOCADO: CSV upload -> background clustering pipeline -> task registry  *)
(* -> status / results / download endpoints.                                *)
(*                                                                         *)
(* app/services/clustering.py : the pipeline (read_csv, label encoding,    *)
(*                              standard scaling, k-means, summary, JSON)  *)
(* app/main.py                : TaskManager, process_file_task, endpoints  *)
(***************************************************************************)
EXTENDS Integers, Sequences, FiniteSets, TLC

VARIABLES
    tasks,        \* TaskManager._tasks : task_id -> [status, result, error]
    background,   \* BackgroundTasks: scheduled process_file_task(task_id, file_bytes)
    submitted,    \* task_id -> the file_bytes its upload handed to the background task
    next_id,      \* number of identifiers generate_task_id has handed out
    response,     \* the last HTTP response sent
    call          \* one direct call of run_clustering_pipeline(file_bytes, k_opt)

vars == <<tasks, background, submitted, next_id, response, call>>

\* ---------------------------------------------------------------- bounds
MaxRows == 3      \* data rows of a generated CSV file
MaxK == 3         \* largest k_opt of a direct pipeline call
MaxTasks == 2     \* uploads accepted in one behaviour

\* ---------------------------------------------------------------- Python values
\* None / a value, as a sequence of length 0 / 1
None == <<>>
Some(x) == <<x>>
IsNone(o) == Len(o) = 0
The(o) == o[1]

\* A text is a sequence of one-character strings.
\* A cell value of a DataFrame: object (str), int64 or float64.  A float64
\* produced by StandardScaler is kept exactly, as num / sqrt(den).
StrV(t) == [kind |-> "str", text |-> t, num |-> 0, den |-> 1]
IntV(i) == [kind |-> "int", text |-> <<>>, num |-> i, den |-> 1]
FloatV(n, d) == [kind |-> "float", text |-> <<>>, num |-> n, den |-> d]

DigitVal(c) ==
    CASE c = "0" -> 0 [] c = "1" -> 1 [] c = "2" -> 2 [] c = "3" -> 3
      [] c = "4" -> 4 [] c = "5" -> 5 [] c = "6" -> 6 [] c = "7" -> 7
      [] c = "8" -> 8 [] c = "9" -> 9 [] OTHER -> -1

\* code point of the characters that occur in the generated files
Ord(c) ==
    CASE DigitVal(c) >= 0 -> 48 + DigitVal(c)
      [] c = "A" -> 65 [] c = "B" -> 66 [] c = "C" -> 67 [] c = "P" -> 80
      [] c = "X" -> 88 [] c = "l" -> 108 [] OTHER -> 127

IsIntText(t) == Len(t) > 0 /\ \A i \in 1..Len(t) : DigitVal(t[i]) >= 0

RECURSIVE ParseInt(_)
ParseInt(t) ==
    IF Len(t) = 0 THEN 0
    ELSE 10 * ParseInt(SubSeq(t, 1, Len(t) - 1)) + DigitVal(t[Len(t)])

\* Python's str ordering: lexicographic by code point
RECURSIVE TextLess(_, _)
TextLess(a, b) ==
    IF Len(b) = 0 THEN FALSE
    ELSE IF Len(a) = 0 THEN TRUE
    ELSE IF Ord(a[1]) # Ord(b[1]) THEN Ord(a[1]) < Ord(b[1])
    ELSE TextLess(Tail(a), Tail(b))

\* ordering used by sorted()/np.unique on one column (one kind per column)
ValueLess(a, b) ==
    IF a.kind = "str" THEN TextLess(a.text, b.text) ELSE a.num < b.num

\* ---------------------------------------------------------------- exceptions
Raise(kind, msg) == [ok |-> FALSE, kind |-> kind, msg |-> msg]

NameMissingMsg == "Dataset must contain a 'name' column for person identification."
NoNumericMsg == "Dataset must contain at least one numeric column for clustering."

\* ---------------------------------------------------------------- pd.read_csv
\* file_bytes: the lines of the CSV text; line 1 is the header (column
\* names), every other line is one row of cell texts.
Column(rows, j) == [i \in 1..Len(rows) |-> rows[i][j]]

InferDtype(cells) ==
    IF Len(cells) > 0 /\ \A i \in 1..Len(cells) : IsIntText(cells[i])
    THEN "int64" ELSE "object"

ParseColumn(cells) ==
    IF InferDtype(cells) = "int64"
    THEN [i \in 1..Len(cells) |-> IntV(ParseInt(cells[i]))]
    ELSE [i \in 1..Len(cells) |-> StrV(cells[i])]

\* (mutant) a reader that lower-cases the column names
LowerName(c) == IF c = "Name" THEN "name" ELSE c

read_csv_lowercase(file_bytes) ==
    IF Len(file_bytes) = 0 \/ Len(file_bytes[1]) = 0
    THEN Raise("ParseError", "No columns to parse from file")
    ELSE LET header == [j \in 1..Len(file_bytes[1]) |-> LowerName(file_bytes[1][j])]
             rows == Tail(file_bytes)
             idx(c) == CHOOSE j \in 1..Len(header) : header[j] = c
             cols == {header[j] : j \in 1..Len(header)}
         IN [ok |-> TRUE,
             df |-> [columns |-> header,
                     n |-> Len(rows),
                     dtype |-> [c \in cols |-> InferDtype(Column(rows, idx(c)))],
                     data |-> [c \in cols |-> ParseColumn(Column(rows, idx(c)))]]]

read_csv(file_bytes) ==
    IF Len(file_bytes) = 0 \/ Len(file_bytes[1]) = 0
    THEN Raise("ParseError", "No columns to parse from file")
    ELSE LET header == file_bytes[1]
             rows == Tail(file_bytes)
             idx(c) == CHOOSE j \in 1..Len(header) : header[j] = c
             cols == {header[j] : j \in 1..Len(header)}
         IN [ok |-> TRUE,
             df |-> [columns |-> header,
                     n |-> Len(rows),
                     dtype |-> [c \in cols |-> InferDtype(Column(rows, idx(c)))],
                     data |-> [c \in cols |-> ParseColumn(Column(rows, idx(c)))]]]

HasColumn(df, c) == \E j \in 1..Len(df.columns) : df.columns[j] = c

IsNumber(dtype) == dtype \in {"int64", "float64", "int32"}

\* df.select_dtypes(include=[np.number]).columns.tolist()
select_dtypes_number(df) ==
    LET Test(c) == IsNumber(df.dtype[c]) IN SelectSeq(df.columns, Test)

\* ---------------------------------------------------------------- _encode_categorical_columns
candidate_columns ==
    <<"gaming_platform_top1", "social_platform_top1", "ott_top1", "content_creation_freq">>

Range(f) == {f[i] : i \in DOMAIN f}

\* LabelEncoder().fit_transform(values): classes_ = sorted(unique(values)),
\* each value replaced by its index in classes_
LabelEncoder_fit_transform(values) ==
    [i \in 1..Len(values) |->
        IntV(Cardinality({v \in Range(values) : ValueLess(v, values[i])}))]

encode_categorical_columns(df) ==
    LET InDf(c) == HasColumn(df, c)
        cat_cols == SelectSeq(candidate_columns, InDf)
        cats == Range(cat_cols)
    IN [df EXCEPT
          !.dtype = [c \in DOMAIN df.dtype |->
                        IF c \in cats THEN "int64" ELSE df.dtype[c]],
          !.data = [c \in DOMAIN df.data |->
                        IF c \in cats THEN LabelEncoder_fit_transform(df.data[c])
                        ELSE df.data[c]]]

\* ---------------------------------------------------------------- _scale_numeric_columns
RECURSIVE SumSeq(_)
SumSeq(s) == IF Len(s) = 0 THEN 0 ELSE s[1] + SumSeq(Tail(s))

\* StandardScaler().fit_transform on one column: (v - mean) / population std,
\* and v - mean (= 0) for a constant column (sklearn sets scale_ = 1 there).
\* With n values of sum S and sum of squares Q:
\*   (v - S/n) / sqrt(Q/n - (S/n)^2) = (n*v - S) / sqrt(n*Q - S*S)
StandardScaler_fit_transform(values) ==
    LET n == Len(values)
        S == SumSeq([i \in 1..n |-> values[i].num])
        Q == SumSeq([i \in 1..n |-> values[i].num * values[i].num])
        var == n * Q - S * S
    IN [i \in 1..n |->
          IF var = 0 THEN FloatV(0, 1) ELSE FloatV(n * values[i].num - S, var)]

ScalerEmptyMsg == "Found array with 0 sample(s) while a minimum of 1 is required by StandardScaler."

scale_numeric_columns(df) ==
    LET numeric_cols == select_dtypes_number(df)
        nums == Range(numeric_cols)
    IN IF Len(numeric_cols) = 0
       THEN [ok |-> TRUE, df |-> df, numeric_cols |-> numeric_cols]
       ELSE IF df.n = 0
       THEN Raise("ValueError", ScalerEmptyMsg)
       ELSE [ok |-> TRUE,
             numeric_cols |-> numeric_cols,
             df |-> [df EXCEPT
                       !.dtype = [c \in DOMAIN df.dtype |->
                                     IF c \in nums THEN "float64" ELSE df.dtype[c]],
                       !.data = [c \in DOMAIN df.data |->
                                     IF c \in nums
                                     THEN StandardScaler_fit_transform(df.data[c])
                                     ELSE df.data[c]]]]

\* ---------------------------------------------------------------- KMeans
random_state == 42

\* the feature matrix: one row per table row, one entry per column of cols
FeatureMatrix(df, cols) ==
    [i \in 1..df.n |-> [j \in 1..Len(cols) |-> df.data[cols[j]][i]]]

Min(a, b) == IF a < b THEN a ELSE b

\* sorted(set of integers), as a sequence
RECURSIVE SortedSeq(_)
SortedSeq(S) ==
    IF S = {} THEN <<>>
    ELSE LET m == CHOOSE x \in S : \A y \in S : x <= y
         IN <<m>> \o SortedSeq(S \ {m})

RECURSIVE Pow(_, _)
Pow(b, e) == IF e = 0 THEN 1 ELSE b * Pow(b, e - 1)

\* The labellings KMeans(n_clusters=k).fit_predict(X) can end with: a label in
\* 0..k-1 per row, computed from the row's features alone (nearest centre,
\* lowest index on ties), so equal rows share a label and no more labels are
\* used than there are distinct rows.
Labellings(X, k) ==
    LET n == Len(X)
        used == Min(k, Cardinality(Range(X)))
        \* the first row with the same features
        first == [i \in 1..n |-> CHOOSE j \in 1..i : X[j] = X[i] /\ \A h \in 1..(j - 1) : X[h] # X[i]]
        reps == {i \in 1..n : first[i] = i}
    IN {[i \in 1..n |-> g[first[i]]] :
          g \in {h \in [reps -> 0..(k - 1)] : Cardinality(Range(h)) = used}}

LabellingCode(l, k) == SumSeq([i \in 1..Len(l) |-> l[i] * Pow(k, i - 1)])

\* The seeded generator fixes which of them the run ends with.
SeededLabelling(X, k, seed) ==
    LET codes == SortedSeq({LabellingCode(l, k) : l \in Labellings(X, k)})
        code == codes[(seed % Len(codes)) + 1]
    IN [i \in 1..Len(X) |-> (code \div Pow(k, i - 1)) % k]

KMeansMsg(n, k) ==
    "n_samples=" \o ToString(n) \o " should be >= n_clusters=" \o ToString(k) \o "."

\* (mutant) a k-means that accepts fewer rows than clusters
fit_predict_unchecked(X, k) ==
    [ok |-> TRUE, labels |-> SeededLabelling(X, k, random_state)]

\* (mutant) random_state left unset: the generator is seeded from whatever
\* the process has done so far
fit_predict_unseeded(X, k) ==
    IF Len(X) < k
    THEN Raise("ClusteringError", KMeansMsg(Len(X), k))
    ELSE [ok |-> TRUE,
          labels |-> SeededLabelling(X, k, random_state + next_id + Cardinality(background))]

\* KMeans(n_clusters=k, random_state=42, n_init=10).fit_predict(X)
fit_predict(X, k) ==
    IF Len(X) < k
    THEN Raise("ClusteringError", KMeansMsg(Len(X), k))
    ELSE [ok |-> TRUE, labels |-> SeededLabelling(X, k, random_state)]

\* ---------------------------------------------------------------- run_clustering_pipeline
\* (mutant) the filter written with <= : a row is listed under every label
\* from its own upward
RECURSIVE PersonsInCluster_upto(_, _, _)
PersonsInCluster_upto(names, labels, cluster_id) ==
    IF Len(names) = 0 THEN <<>>
    ELSE (IF labels[1] <= cluster_id THEN <<names[1]>> ELSE <<>>)
         \o PersonsInCluster_upto(Tail(names), Tail(labels), cluster_id)

\* df[df["Cluster"] == cluster_id]["name"].tolist()
RECURSIVE PersonsInCluster(_, _, _)
PersonsInCluster(names, labels, cluster_id) ==
    IF Len(names) = 0 THEN <<>>
    ELSE (IF labels[1] = cluster_id THEN <<names[1]>> ELSE <<>>)
         \o PersonsInCluster(Tail(names), Tail(labels), cluster_id)

ClusterKey(cluster_id) == "Cluster " \o ToString(cluster_id)

\* df["Cluster"].unique(): the labels in order of first appearance
RECURSIVE Unique(_, _)
Unique(labels, seen) ==
    IF Len(labels) = 0 THEN <<>>
    ELSE IF labels[1] \in seen THEN Unique(Tail(labels), seen)
    ELSE <<labels[1]>> \o Unique(Tail(labels), seen \cup {labels[1]})

\* (mutant) the loop over df["Cluster"].unique() without sorted()
clusters_summary_unsorted(names, labels) ==
    LET ids == Unique(labels, {})
    IN [p \in 1..Len(ids) |->
          [key |-> ClusterKey(ids[p]),
           persons |-> PersonsInCluster(names, labels, ids[p])]]

\* the dict built by lines 72-75, as its items in insertion order
clusters_summary(names, labels) ==
    LET ids == SortedSeq(Range(Unique(labels, {})))
    IN [p \in 1..Len(ids) |->
          [key |-> ClusterKey(ids[p]),
           persons |-> PersonsInCluster(names, labels, ids[p])]]

\* df.to_dict(orient="records") once df["Cluster"] is set: one dict per row,
\* as its items in column order
to_dict_records(df, labels) ==
    LET cols == df.columns \o <<"Cluster">>
    IN [i \in 1..df.n |->
          [j \in 1..Len(cols) |->
              [key |-> cols[j],
               value |-> IF cols[j] = "Cluster" THEN IntV(labels[i])
                         ELSE df.data[cols[j]][i]]]]

\* The frame of one call at its exit: what it returns or raises, the steps it
\* ran and its locals (df, numeric_cols, the columns of X, the labels).
Frame(outcome, steps, df, numeric_cols, X_cols, labels) ==
    [ok |-> outcome.ok,
     result |-> IF outcome.ok THEN Some(outcome.result) ELSE None,
     kind |-> IF outcome.ok THEN "" ELSE outcome.kind,
     msg |-> IF outcome.ok THEN "" ELSE outcome.msg,
     steps |-> steps, df |-> df, numeric_cols |-> numeric_cols,
     X_cols |-> X_cols, labels |-> labels]

run_clustering_pipeline(file_bytes, k_opt) ==
    LET parsed == read_csv(file_bytes)
    IN IF ~parsed.ok
       THEN Frame(parsed, <<"read_csv">>, None, <<>>, <<>>, <<>>)
       ELSE IF ~HasColumn(parsed.df, "name")
       THEN Frame(Raise("SchemaError", NameMissingMsg), <<"read_csv">>,
                  Some(parsed.df), <<>>, <<>>, <<>>)
       ELSE
       LET encoded == encode_categorical_columns(parsed.df)
           scaled == scale_numeric_columns(encoded)
       IN IF ~scaled.ok
          THEN Frame(scaled, <<"read_csv", "encode", "scale">>,
                     Some(encoded), <<>>, <<>>, <<>>)
          ELSE IF Len(scaled.numeric_cols) = 0
          THEN Frame(Raise("SchemaError", NoNumericMsg), <<"read_csv", "encode", "scale">>,
                     Some(scaled.df), scaled.numeric_cols, <<>>, <<>>)
          ELSE
          LET df == scaled.df
              X_cols == select_dtypes_number(df)
              fitted == fit_predict(FeatureMatrix(df, X_cols), k_opt)
          IN IF ~fitted.ok
             THEN Frame(fitted, <<"read_csv", "encode", "scale", "kmeans">>,
                        Some(df), scaled.numeric_cols, X_cols, <<>>)
             ELSE Frame([ok |-> TRUE,
                         result |-> [number_of_clusters |-> k_opt,
                                     clusters |-> clusters_summary(df.data["name"],
                                                                   fitted.labels),
                                     raw_clusters |-> to_dict_records(df, fitted.labels)]],
                        <<"read_csv", "encode", "scale", "kmeans", "summary">>,
                        Some(df), scaled.numeric_cols, X_cols, fitted.labels)

\* ---------------------------------------------------------------- serialize_clusters_to_json
\* JSON text, as its tokens: punctuation, object keys and scalars
Punct(p) == [tok |-> p, s |-> "", val |-> IntV(0)]
KeyTok(k) == [tok |-> "key", s |-> k, val |-> IntV(0)]
ScalarTok(v) == [tok |-> "scalar", s |-> "", val |-> v]

RECURSIVE JoinTokens(_)
\* the parts, separated by commas
JoinTokens(parts) ==
    IF Len(parts) = 0 THEN <<>>
    ELSE IF Len(parts) = 1 THEN parts[1]
    ELSE parts[1] \o <<Punct(",")>> \o JoinTokens(Tail(parts))

DumpsList(values) ==
    <<Punct("[")>> \o JoinTokens([i \in 1..Len(values) |-> <<ScalarTok(values[i])>>])
                   \o <<Punct("]")>>

DumpsMember(key, tokens) == <<KeyTok(key), Punct(":")>> \o tokens

DumpsObject(members) == <<Punct("{")>> \o JoinTokens(members) \o <<Punct("}")>>

DumpsClusters(clusters) ==
    DumpsObject([p \in 1..Len(clusters) |->
                    DumpsMember(clusters[p].key, DumpsList(clusters[p].persons))])

\* (used by the mutant of serialize_clusters_to_json) a list of row dicts
DumpsRecords(records) ==
    <<Punct("[")>>
    \o JoinTokens([i \in 1..Len(records) |->
          DumpsObject([j \in 1..Len(records[i]) |->
              DumpsMember(records[i][j].key, <<ScalarTok(records[i][j].value)>>)])])
    \o <<Punct("]")>>

\* (mutant) json.dumps(clustering_result): the result dict as it is stored
serialize_whole_result(clustering_result) ==
    DumpsObject(<<
        DumpsMember("number_of_clusters",
                    <<ScalarTok(IntV(clustering_result.number_of_clusters))>>),
        DumpsMember("clusters", DumpsClusters(clustering_result.clusters)),
        DumpsMember("raw_clusters", DumpsRecords(clustering_result.raw_clusters))>>)

serialize_clusters_to_json(clustering_result) ==
    DumpsObject(<<
        DumpsMember("number_of_clusters",
                    <<ScalarTok(IntV(clustering_result.number_of_clusters))>>),
        DumpsMember("clusters", DumpsClusters(clustering_result.clusters))>>)

\* ---------------------------------------------------------------- TaskManager
k_opt_default == 3

create_task(reg, task_id) ==
    [t \in DOMAIN reg \cup {task_id} |->
        IF t = task_id THEN [status |-> "processing", result |-> None, error |-> None]
        ELSE reg[t]]

set_result(reg, task_id, result) ==
    [t \in DOMAIN reg \cup {task_id} |->
        IF t = task_id THEN [status |-> "completed", result |-> Some(result), error |-> None]
        ELSE reg[t]]

set_error(reg, task_id, error) ==
    [t \in DOMAIN reg \cup {task_id} |->
        IF t = task_id THEN [status |-> "failed", result |-> None, error |-> Some(error)]
        ELSE reg[t]]

\* (mutant) an identifier generator that hands out its last identifier again
generate_task_id_repeated == IF next_id = 0 THEN 1 ELSE next_id

\* uuid.uuid4().hex: an identifier no earlier call returned
generate_task_id == next_id + 1

\* ---------------------------------------------------------------- generated CSV files
ColumnOrder == <<"name", "Name", "age", "gaming_platform_top1">>

\* the cell texts a generated file draws for a column
CellDomain(c) ==
    CASE c = "name" -> {<<"1", "0">>, <<"A", "l">>}
      [] c = "Name" -> {<<"A", "l">>}
      [] c = "age" -> {<<"2", "0">>, <<"4", "5">>}
      [] OTHER -> {<<"P", "C">>, <<"X", "B">>}

AllCells == UNION {CellDomain(ColumnOrder[j]) : j \in 1..Len(ColumnOrder)}

Headers ==
    {LET In(c) == c \in S IN SelectSeq(ColumnOrder, In) : S \in SUBSET Range(ColumnOrder)}

RowsFor(header) ==
    {r \in [1..Len(header) -> AllCells] :
        \A j \in 1..Len(header) : r[j] \in CellDomain(header[j])}

FilesWithRows(n) ==
    UNION {{<<h>> \o rows : rows \in [1..n -> RowsFor(h)]} : h \in Headers}

GeneratedFiles == UNION {FilesWithRows(n) : n \in 0..MaxRows}

\* ---------------------------------------------------------------- uploaded files
Lower(c) ==
    CASE c = "C" -> "c" [] c = "S" -> "s" [] c = "V" -> "v" [] c = "D" -> "d"
      [] OTHER -> c

EndsWith(t, suffix) ==
    /\ Len(t) >= Len(suffix)
    /\ SubSeq(t, Len(t) - Len(suffix) + 1, Len(t)) = suffix

Al == <<"A", "l">>
Bo == <<"B", "o">>
Ca == <<"C", "a">>
Da == <<"D", "a">>
PC == <<"P", "C">>
XB == <<"X", "B">>
T20 == <<"2", "0">>
T45 == <<"4", "5">>
T7 == <<"7">>
T10 == <<"1", "0">>

\* the files clients upload
ThreeGroups ==
    << <<"name", "age", "gaming_platform_top1">>,
       <<Al, T20, PC>>, <<Bo, T45, XB>>, <<Ca, T45, PC>> >>
TwoGroups ==
    << <<"name", "age", "gaming_platform_top1">>,
       <<Al, T20, PC>>, <<Bo, T45, XB>>, <<Ca, T20, PC>>, <<Da, T45, XB>> >>
NumericNames ==
    << <<"name", "age">>, <<T10, T20>>, <<T7, T45>>, <<T45, T7>> >>
WrongCase ==
    << <<"Name", "age", "gaming_platform_top1">>,
       <<Al, T20, PC>>, <<Bo, T45, XB>>, <<Ca, T45, PC>> >>
NoIdentifier == << <<"age">>, <<T20>>, <<T45>>, <<T7>> >>
NoNumeric == << <<"name", "Name">>, <<Al, Al>>, <<Bo, Bo>>, <<Ca, Ca>> >>
TooFewRows == << <<"name", "age">>, <<Al, T20>>, <<Bo, T45>> >>
EmptyFile == <<>>

SampleFiles ==
    {ThreeGroups, TwoGroups, NumericNames, WrongCase, NoIdentifier, NoNumeric,
     TooFewRows}

UploadRequests ==
    [filename : {<<"d", ".", "C", "S", "V">>}, file_bytes : SampleFiles]
    \cup {[filename |-> <<>>, file_bytes |-> ThreeGroups],
          [filename |-> <<"d", ".", "t", "x", "t">>, file_bytes |-> ThreeGroups],
          [filename |-> <<"d", ".", "c", "s", "v">>, file_bytes |-> EmptyFile]}

\* ---------------------------------------------------------------- endpoints
Respond(endpoint, task_id, code, status, detail, body) ==
    Some([endpoint |-> endpoint, task_id |-> task_id, code |-> code,
          status |-> status, detail |-> detail, body |-> body])

Known(task_id) == task_id \in DOMAIN tasks

\* POST /upload
upload_file ==
    \E u \in UploadRequests :
       IF Len(u.filename) = 0
       THEN /\ response' = Respond("upload", 0, 400, "", "No file selected.", <<>>)
            /\ UNCHANGED <<tasks, background, submitted, next_id, call>>
       ELSE IF ~EndsWith([i \in 1..Len(u.filename) |-> Lower(u.filename[i])],
                         <<".", "c", "s", "v">>)
       THEN /\ response' = Respond("upload", 0, 400, "", "Only CSV files are supported.", <<>>)
            /\ UNCHANGED <<tasks, background, submitted, next_id, call>>
       ELSE IF Len(u.file_bytes) = 0
       THEN /\ response' = Respond("upload", 0, 400, "", "Uploaded file is empty.", <<>>)
            /\ UNCHANGED <<tasks, background, submitted, next_id, call>>
       ELSE /\ next_id < MaxTasks
            /\ LET task_id == generate_task_id
               IN /\ tasks' = create_task(tasks, task_id)
                  /\ background' = background \cup
                        {[task_id |-> task_id, file_bytes |-> u.file_bytes]}
                  /\ submitted' = [t \in DOMAIN submitted \cup {task_id} |->
                                      IF t = task_id THEN u.file_bytes ELSE submitted[t]]
                  /\ response' = Respond("upload", task_id, 303, "", "processing_view", <<>>)
            /\ next_id' = next_id + 1
            /\ UNCHANGED call

\* lines 56-61: the try / except / else around the pipeline call
StoreOutcome(reg, task_id, frame) ==
    IF frame.ok THEN set_result(reg, task_id, The(frame.result))
    ELSE set_error(reg, task_id, frame.msg)

\* the background task scheduled by upload_file
process_file_task ==
    \E b \in background :
       /\ tasks' = StoreOutcome(tasks, b.task_id,
                                run_clustering_pipeline(b.file_bytes, k_opt_default))
       /\ background' = background \ {b}
       /\ UNCHANGED <<submitted, next_id, response, call>>

PollIds == 1..MaxTasks

\* GET /processing/{task_id}
processing_view ==
    \E task_id \in PollIds :
       /\ response' = IF ~Known(task_id)
                      THEN Respond("processing", task_id, 404, "", "Task not found.", <<>>)
                      ELSE Respond("processing", task_id, 200, "", "processing.html", <<>>)
       /\ UNCHANGED <<tasks, background, submitted, next_id, call>>

\* GET /status/{task_id}
task_status ==
    \E task_id \in PollIds :
       /\ response' =
             IF ~Known(task_id)
             THEN Respond("status", task_id, 404, "", "Task not found.", <<>>)
             ELSE LET task == tasks[task_id]
                  IN Respond("status", task_id, 200, task.status,
                             IF task.status = "completed"
                             THEN "/results/" \o ToString(task_id)
                             ELSE IF task.status = "failed" THEN The(task.error)
                             ELSE "",
                             <<>>)
       /\ UNCHANGED <<tasks, background, submitted, next_id, call>>

\* GET /results/{task_id}
results_view ==
    \E task_id \in PollIds :
       /\ response' =
             IF ~Known(task_id)
             THEN Respond("results", task_id, 404, "", "Task not found.", <<>>)
             ELSE LET task == tasks[task_id]
                  IN IF task.status = "processing"
                     THEN Respond("results", task_id, 303, task.status, "processing_view", <<>>)
                     ELSE IF task.status = "failed"
                     THEN Respond("results", task_id, 200, task.status, The(task.error), <<>>)
                     ELSE Respond("results", task_id, 200, task.status, "results.html", <<>>)
       /\ UNCHANGED <<tasks, background, submitted, next_id, call>>

\* GET /download/{task_id}
download_result ==
    \E task_id \in PollIds :
       /\ response' =
             IF ~Known(task_id)
             THEN Respond("download", task_id, 404, "", "Task not found.", <<>>)
             ELSE LET task == tasks[task_id]
                  IN IF task.status # "completed"
                     THEN Respond("download", task_id, 400, task.status,
                                  "Result not available.", <<>>)
                     ELSE Respond("download", task_id, 200, task.status,
                                  "clusters_" \o ToString(task_id) \o ".json",
                                  serialize_clusters_to_json(The(task.result)))
       /\ UNCHANGED <<tasks, background, submitted, next_id, call>>

Init ==
    /\ tasks = <<>>
    /\ background = {}
    /\ submitted = <<>>
    /\ next_id = 0
    /\ response = None
    /\ call = None

\* ---------------------------------------------------------------- direct calls of the pipeline
InitPipeline ==
    /\ tasks = <<>>
    /\ background = {}
    /\ submitted = <<>>
    /\ next_id = 0
    /\ response = None
    /\ \E f \in GeneratedFiles, k \in 1..MaxK :
          call = Some([pc |-> "called", file_bytes |-> f, k_opt |-> k,
                       frame |-> None])

CallPipeline ==
    /\ ~IsNone(call)
    /\ The(call).pc = "called"
    /\ call' = Some([The(call) EXCEPT
                       !.pc = "returned",
                       !.frame = Some(run_clustering_pipeline(The(call).file_bytes,
                                                              The(call).k_opt))])
    /\ UNCHANGED <<tasks, background, submitted, next_id, response>>

NextPipeline == CallPipeline

SpecPipeline == InitPipeline /\ [][NextPipeline]_vars

Next ==
    \/ upload_file
    \/ process_file_task
    \/ processing_view
    \/ task_status
    \/ results_view
    \/ download_result

Spec == Init /\ [][Next]_vars

\* ================================================================ claims
\* the direct call, once it has returned or raised
Returned == ~IsNone(call) /\ The(call).pc = "returned"
Fr == The(The(call).frame)
Succeeded == Returned /\ Fr.ok
InFile == The(call).file_bytes
InK == The(call).k_opt
\* number of rows of the input table
InRows == Len(InFile) - 1
\* the input table was parsed: it has a header with at least one column
InParsed == Len(InFile) > 0 /\ Len(InFile[1]) > 0
InHeader == {InFile[1][j] : j \in 1..Len(InFile[1])}
\* the cell texts of an input column
InCells(c) ==
    LET j == CHOOSE h \in 1..Len(InFile[1]) : InFile[1][h] = c
    IN [i \in 1..InRows |-> InFile[i + 1][j]]
OutClusters == The(Fr.result).clusters
\* df["name"] and df["Cluster"] as the summary loop reads them
OutNames == The(Fr.df).data["name"]
OutLabels == Fr.labels
RowsOf(cluster_id) == {i \in 1..InRows : OutLabels[i] = cluster_id}
\* the label a key of the mapping stands for
LabelOfKey(key) == CHOOSE i \in 0..(InK - 1) : ClusterKey(i) = key
CountIn(seq, v) == Cardinality({q \in 1..Len(seq) : seq[q] = v})

\* C1: on success the lists of `clusters` partition the rows: their lengths
\* sum to the number of rows of the table, the keys are distinct, every row's
\* label has a key, and the list of a key holds, value by value, as many
\* entries as there are rows of that label with that identifier.
C1_ClustersPartitionRows ==
    Succeeded =>
       /\ SumSeq([p \in 1..Len(OutClusters) |-> Len(OutClusters[p].persons)]) = InRows
       /\ \A p, q \in 1..Len(OutClusters) :
             OutClusters[p].key = OutClusters[q].key => p = q
       /\ \A i \in 1..InRows :
             \E p \in 1..Len(OutClusters) :
                /\ OutClusters[p].key = ClusterKey(OutLabels[i])
                /\ CountIn(OutClusters[p].persons, OutNames[i])
                      = Cardinality({r \in RowsOf(OutLabels[i]) : OutNames[r] = OutNames[i]})

\* a successful run with rows in at least two clusters, one of them holding two rows
C1_Witness ==
    /\ Succeeded
    /\ InRows = 3
    /\ \A i \in 1..InRows : OutNames[i].kind = "str"
    /\ Len(OutClusters) = 2
    /\ \E p \in 1..2 : Len(OutClusters[p].persons) = 2

\* C2: on success with cluster count k the mapping has exactly the k keys
\* "Cluster 0" .. "Cluster k-1", a label without rows mapped to an empty list.
\* (Stated for the tables whose identifiers are text, where the features are
\* the numeric and categorical columns alone.)
C2_AllLabelsPresent ==
    (Succeeded /\ InferDtype(InCells("name")) = "object") =>
       /\ Len(OutClusters) = InK
       /\ \A i \in 0..(InK - 1) :
             \E p \in 1..Len(OutClusters) : OutClusters[p].key = ClusterKey(i)

\* C5: a table with no numeric column once "name" and the recognised
\* categorical columns are set aside is rejected: the run fails, k-means is
\* not run and nothing is returned.
InNumericCandidates ==
    {c \in InHeader \ ({"name"} \cup Range(candidate_columns)) :
        InferDtype(InCells(c)) = "int64"}

C5_NoNumericColumnsFails ==
    (Returned /\ InParsed /\ InNumericCandidates = {}) =>
       /\ ~Fr.ok
       /\ IsNone(Fr.result)
       /\ \A j \in 1..Len(Fr.steps) : Fr.steps[j] # "kmeans"

\* C6 as stated: k greater than the number of rows always ends in a
\* ClusteringError, with nothing returned.  (Stated for the tables that were
\* parsed and have at least one row.)
C6_Original_AlwaysClusteringError ==
    (Returned /\ InParsed /\ InRows >= 1 /\ InK > InRows) =>
       /\ ~Fr.ok
       /\ Fr.kind = "ClusteringError"
       /\ IsNone(Fr.result)

\* C6 amended: k greater than the number of rows never returns a result; the
\* run fails, with the ClusteringError of the k-means step (n_samples < n_clusters)
\* exactly when it gets as far as that step, and with the error of the earlier
\* step (parse, schema, scaler) that stopped it otherwise.
C6_TooManyClustersFails ==
    (Returned /\ InK > InRows) =>
       /\ ~Fr.ok
       /\ IsNone(Fr.result)
       /\ Fr.labels = <<>>
       /\ (Fr.kind = "ClusteringError") <=> (\E j \in 1..Len(Fr.steps) : Fr.steps[j] = "kmeans")
       /\ Fr.kind = "ClusteringError" => Fr.msg = KMeansMsg(InRows, InK)

\* k-means itself refused the input: more clusters asked for than rows
C6_Witness ==
    /\ Returned
    /\ InK > InRows
    /\ InRows >= 1
    /\ "age" \in InHeader
    /\ "name" \in InHeader
    /\ InferDtype(InCells("name")) = "object"
    /\ Fr.kind = "ClusteringError"

\* C8: the keys of `clusters` are in ascending label order, and the list of
\* "Cluster i" is the "name" column of the rows labelled i, in row order: the
\* row with m rows of its label before it is entry m+1 of that list.
C8_KeysAscendingRowOrderKept ==
    Succeeded =>
       /\ \A p \in 1..Len(OutClusters) :
             /\ \E i \in 0..(InK - 1) : OutClusters[p].key = ClusterKey(i)
             /\ RowsOf(LabelOfKey(OutClusters[p].key)) # {}
             /\ Len(OutClusters[p].persons)
                   = Cardinality(RowsOf(LabelOfKey(OutClusters[p].key)))
             /\ \A r \in RowsOf(LabelOfKey(OutClusters[p].key)) :
                   OutClusters[p].persons[
                       Cardinality({h \in RowsOf(LabelOfKey(OutClusters[p].key)) : h <= r})]
                     = OutNames[r]
       /\ \A p, q \in 1..Len(OutClusters) :
             p < q => LabelOfKey(OutClusters[p].key) < LabelOfKey(OutClusters[q].key)

\* a run whose first row is not in the first cluster, and a cluster that
\* holds two rows with different identifiers
C8_Witness ==
    /\ Succeeded
    /\ InRows = 3
    /\ \A i \in 1..InRows : OutNames[i].kind = "str"
    /\ OutLabels[1] > OutLabels[2]
    /\ \E p \in 1..Len(OutClusters) :
          /\ Len(OutClusters[p].persons) = 2
          /\ OutClusters[p].persons[1] # OutClusters[p].persons[2]

\* C10: "name" is never treated as a numeric column: it is not among the scaled
\* columns nor among the columns of the feature matrix, and the table's "name"
\* column, hence every identifier listed in `clusters`, is the input's own
\* text.
C10_NameNeverNumeric ==
    (Returned /\ InParsed /\ "name" \in InHeader) =>
       /\ \A j \in 1..Len(Fr.numeric_cols) : Fr.numeric_cols[j] # "name"
       /\ \A j \in 1..Len(Fr.X_cols) : Fr.X_cols[j] # "name"
       /\ OutNames = [i \in 1..InRows |-> StrV(InCells("name")[i])]
       /\ Fr.ok =>
             \A p \in 1..Len(OutClusters) :
                \A q \in 1..Len(OutClusters[p].persons) :
                   \E i \in 1..InRows :
                      OutClusters[p].persons[q] = StrV(InCells("name")[i])

\* ---------------------------------------------------------------- registry claims
Terminal(task) == task.status \in {"completed", "failed"}
Pending(task_id) == {b \in background : b.task_id = task_id}

\* C3: a task goes from `processing` to `completed` or `failed` once and then
\* never changes: in every step, a task that is terminal keeps status, result
\* and error; a task that is processing stays so or becomes terminal, carrying
\* a result (completed) or an error message (failed) but not both; and a task
\* has one scheduled pipeline run while it is processing and none afterwards.
C3_TerminalIsFinal ==
    [][\A t \in DOMAIN tasks :
          /\ t \in DOMAIN tasks'
          /\ Terminal(tasks[t]) => tasks'[t] = tasks[t]
          /\ tasks[t].status = "processing" =>
                \/ tasks'[t] = tasks[t]
                \/ /\ tasks'[t].status = "completed"
                   /\ ~IsNone(tasks'[t].result)
                   /\ IsNone(tasks'[t].error)
                \/ /\ tasks'[t].status = "failed"
                   /\ IsNone(tasks'[t].result)
                   /\ ~IsNone(tasks'[t].error)
          /\ Cardinality(Pending(t)) = (IF Terminal(tasks[t]) THEN 0 ELSE 1)
          /\ tasks[t].status \in {"processing", "completed", "failed"}]_vars

\* one task completed and downloaded, another failed, after two uploads
C3_Witness ==
    /\ \E t \in DOMAIN tasks : tasks[t].status = "failed"
    /\ \E t \in DOMAIN tasks :
          /\ tasks[t].status = "completed"
          /\ ~IsNone(response)
          /\ The(response).endpoint = "download"
          /\ The(response).task_id = t
          /\ The(response).code = 200

\* the uploaded file was parsed into a table that has no column named "name"
NoNameColumn(file_bytes) ==
    /\ Len(file_bytes) > 0
    /\ Len(file_bytes[1]) > 0
    /\ \A j \in 1..Len(file_bytes[1]) : file_bytes[1][j] # "name"

\* C4: a table without a column named exactly "name" makes the pipeline raise
\* the SchemaError for the missing identifier right after parsing, whatever
\* its other columns: no encoding, scaling or clustering step runs, nothing
\* is returned, and the task that ran it ends `failed` with that message.
C4_MissingNameFails ==
    \A t \in DOMAIN tasks :
       (NoNameColumn(submitted[t]) /\ Pending(t) = {}) =>
          /\ tasks[t] = [status |-> "failed", result |-> None,
                         error |-> Some(NameMissingMsg)]
          /\ run_clustering_pipeline(submitted[t], k_opt_default).kind = "SchemaError"
          /\ run_clustering_pipeline(submitted[t], k_opt_default).msg = NameMissingMsg
          /\ run_clustering_pipeline(submitted[t], k_opt_default).steps = <<"read_csv">>
          /\ IsNone(run_clustering_pipeline(submitted[t], k_opt_default).result)

\* both files without "name" (one with "Name", one with neither) were run
C4_Witness ==
    /\ \E t \in DOMAIN tasks :
          submitted[t] = WrongCase /\ tasks[t].status = "failed"
    /\ \E t \in DOMAIN tasks :
          submitted[t] = NoIdentifier /\ tasks[t].status = "failed"

\* json.loads, for the reader of the export: the document a token sequence
\* stands for, as [t, val, items]; an object's items are [key, value] pairs.
RECURSIVE ParseValue(_), ParseElements(_, _), ParseMembers(_, _)
ParseValue(toks) ==
    IF toks[1].tok = "scalar"
    THEN [tree |-> [t |-> "scalar", val |-> toks[1].val, items |-> <<>>],
          rest |-> Tail(toks)]
    ELSE IF toks[1].tok = "["
    THEN IF toks[2].tok = "]"
         THEN [tree |-> [t |-> "arr", val |-> IntV(0), items |-> <<>>],
               rest |-> SubSeq(toks, 3, Len(toks))]
         ELSE ParseElements(Tail(toks), <<>>)
    ELSE IF toks[2].tok = "}"
         THEN [tree |-> [t |-> "obj", val |-> IntV(0), items |-> <<>>],
               rest |-> SubSeq(toks, 3, Len(toks))]
         ELSE ParseMembers(Tail(toks), <<>>)

ParseElements(toks, acc) ==
    LET e == ParseValue(toks)
    IN IF e.rest[1].tok = ","
       THEN ParseElements(Tail(e.rest), Append(acc, e.tree))
       ELSE [tree |-> [t |-> "arr", val |-> IntV(0), items |-> Append(acc, e.tree)],
             rest |-> Tail(e.rest)]

ParseMembers(toks, acc) ==
    LET e == ParseValue(SubSeq(toks, 3, Len(toks)))
        item == [key |-> toks[1].s, value |-> e.tree]
    IN IF e.rest[1].tok = ","
       THEN ParseMembers(Tail(e.rest), Append(acc, item))
       ELSE [tree |-> [t |-> "obj", val |-> IntV(0), items |-> Append(acc, item)],
             rest |-> Tail(e.rest)]

json_loads(toks) == ParseValue(toks).tree

Keys(obj) == {obj.items[i].key : i \in 1..Len(obj.items)}
Member(obj, key) == obj.items[CHOOSE i \in 1..Len(obj.items) : obj.items[i].key = key].value

\* the parsed "clusters" object says what the stored mapping says
SameClusters(obj, clusters) ==
    /\ obj.t = "obj"
    /\ Len(obj.items) = Len(clusters)
    /\ \A p \in 1..Len(clusters) :
          /\ obj.items[p].key = clusters[p].key
          /\ obj.items[p].value.t = "arr"
          /\ Len(obj.items[p].value.items) = Len(clusters[p].persons)
          /\ \A q \in 1..Len(clusters[p].persons) :
                /\ obj.items[p].value.items[q].t = "scalar"
                /\ obj.items[p].value.items[q].val = clusters[p].persons[q]

Download == ~IsNone(response) /\ The(response).endpoint = "download"

\* C7: /download answers with an export only for a task that is `completed`
\* (any other answer has no body); the export parses to an object with the two keys
\* number_of_clusters and clusters and nothing else, carrying the stored
\* result's values; the per-row records are not in it.
C7_ExportHasTwoKeys ==
    Download =>
       /\ The(response).code = 200 =>
             /\ Known(The(response).task_id)
             /\ tasks[The(response).task_id].status = "completed"
       /\ The(response).code # 200 => The(response).body = <<>>
       /\ The(response).code = 200 =>
             /\ json_loads(The(response).body).t = "obj"
             /\ Len(json_loads(The(response).body).items) = 2
             /\ Keys(json_loads(The(response).body)) = {"number_of_clusters", "clusters"}
             /\ Member(json_loads(The(response).body), "number_of_clusters").t = "scalar"
             /\ Member(json_loads(The(response).body), "number_of_clusters").val
                   = IntV(The(tasks[The(response).task_id].result).number_of_clusters)
             /\ SameClusters(Member(json_loads(The(response).body), "clusters"),
                             The(tasks[The(response).task_id].result).clusters)

\* an export was served, of a result with three clusters
C7_Witness ==
    /\ Download
    /\ The(response).code = 200
    /\ Len(The(tasks[The(response).task_id].result).clusters) = 3
    /\ Len(The(tasks[The(response).task_id].result).raw_clusters) = 3

====
